---- MODULE Spec2Model ----
(***************************************************************************)
(* N2YOClient (src/n2yo_wrapper.py): a synchronous client of the N2YO      *)
(* satellite REST API.  Each of the five operations validates its          *)
(* arguments, issues one blocking HTTP GET, and maps the JSON body into a  *)
(* result dict.  A call is modelled in two steps, split at the blocking    *)
(* requests.get: the call step (validation, URL, GET) and the response     *)
(* step (raise_for_status, json(), mapping, except clauses).               *)
(*                                                                         *)
(* Python values: None and optional values are sequences of length <= 1    *)
(* (None == <<>>, Some(x) == <<x>>); a dict is a function whose DOMAIN is  *)
(* its key set; a str that the code takes apart is a sequence of one-      *)
(* character strings; an aware datetime is [wall, utcoffset].              *)
(***************************************************************************)
EXTENDS Integers, Sequences, FiniteSets, TLC

VARIABLES pc, op, args, sent, response, result, printed

vars == <<pc, op, args, sent, response, result, printed>>

(***************************************************************************)
(* Bounds of the model.                                                    *)
(***************************************************************************)
\* longest list (passes, positions, above) in a response body
MaxItems == 2
\* most pieces a raw TLE string is put together from
MaxPieces == 5

(***************************************************************************)
(* Python values.                                                          *)
(***************************************************************************)
None == <<>>
Some(x) == <<x>>

\* variant: only None is falsy (`if sat_id is None`)
Truthy_NoneOnly(o) == o # None

\* bool(x) of an int-or-None argument: None, 0 and 0.0 are falsy
Truthy(o) == o # None /\ o[1] # 0

\* dict.get(key, default)
Get(d, key, default) == IF key \in DOMAIN d THEN d[key] ELSE default

\* the `seconds > 300` limit of get_positions
MaxSeconds == 300

(***************************************************************************)
(* Exceptions: the class raised and the classes an except clause of that   *)
(* name catches (its bases).                                               *)
(***************************************************************************)
ValueError(msg) ==
    [type |-> "ValueError", mro |-> {"ValueError", "Exception"}, msg |-> msg]

KeyError(key) ==
    [type |-> "KeyError", mro |-> {"KeyError", "LookupError", "Exception"}, msg |-> key]

\* requests.exceptions.{ConnectionError, Timeout, HTTPError}
RequestException(kind) ==
    [type |-> kind, mro |-> {kind, "RequestException", "OSError", "Exception"}, msg |-> kind]

\* response.json() on a body that is not JSON: requests >= 2.27 raises
\* requests.exceptions.JSONDecodeError (a RequestException and a ValueError),
\* older releases a plain ValueError subclass; the source pins no release.
JSONDecodeError(isRequestException) ==
    [type |-> "JSONDecodeError",
     mro  |-> {"JSONDecodeError", "ValueError", "Exception"}
              \cup (IF isRequestException THEN {"RequestException", "OSError"} ELSE {}),
     msg  |-> "Expecting value"]

Raise(e) == [kind |-> "raise", exc |-> e]
Return(v) == [kind |-> "return", value |-> v]
NoResult == [kind |-> "pending"]

(***************************************************************************)
(* The transport: what requests.get and raise_for_status can do.           *)
(***************************************************************************)
NetworkErrors == {"ConnectionError", "Timeout"}
StatusCodes == {200, 404, 500}

\* response.raise_for_status(): HTTPError for 4xx and 5xx
RaisesForStatus(code) == code >= 400 /\ code < 600

\* a response whose request failed, or whose status is not 2xx
FailedResponses ==
    {[net |-> n] : n \in NetworkErrors}
    \cup {[net |-> "ok", code |-> c] : c \in {c \in StatusCodes : RaisesForStatus(c)}}

\* a 200 response whose body is not JSON
NotJsonResponse == [net |-> "ok", code |-> 200, json |-> None]

OkResponse(data) == [net |-> "ok", code |-> 200, json |-> Some(data)]

\* the exception requests.get / raise_for_status / json() raise, or None
TransportError(r, jsonIsReqExc) ==
    IF r.net # "ok" THEN Some(RequestException(r.net))
    ELSE IF RaisesForStatus(r.code) THEN Some(RequestException("HTTPError"))
    ELSE IF r.json = None THEN Some(JSONDecodeError(jsonIsReqExc))
    ELSE None

(***************************************************************************)
(* str.split("\r\n") and str.strip() on character sequences.               *)
(***************************************************************************)
CR == "\r"
LF == "\n"
Whitespace == {" ", "\t", CR, LF}

\* variant: `if line` without the strip()
StripNonEmpty_NoStrip(line) == line # <<>>

\* bool(line.strip()): some character is not whitespace
StripNonEmpty(line) == \E i \in 1..Len(line) : line[i] \notin Whitespace

\* s.split("\r\n"): left to right, every CR LF pair is a separator
RECURSIVE SplitCRLF(_, _)
SplitCRLF(s, cur) ==
    IF s = <<>> THEN <<cur>>
    ELSE IF Len(s) >= 2 /\ s[1] = CR /\ s[2] = LF
         THEN <<cur>> \o SplitCRLF(SubSeq(s, 3, Len(s)), <<>>)
         ELSE SplitCRLF(Tail(s), Append(cur, s[1]))

Split(s) == SplitCRLF(s, <<>>)

\* [line for line in lines if line.strip()]
RECURSIVE NonBlank(_)
NonBlank(lines) ==
    IF lines = <<>> THEN <<>>
    ELSE (IF StripNonEmpty(Head(lines)) THEN <<Head(lines)>> ELSE <<>>)
         \o NonBlank(Tail(lines))

\* tle_lines = [line for line in data["tle"].split("\r\n") if line.strip()]
TleLines(raw) == NonBlank(Split(raw))

\* {"line1": tle_lines[0] if len(tle_lines) > 0 else None, "line2": ...}
TleDict(tle_lines) ==
    [line1 |-> IF Len(tle_lines) > 0 THEN Some(tle_lines[1]) ELSE None,
     line2 |-> IF Len(tle_lines) > 1 THEN Some(tle_lines[2]) ELSE None]

(***************************************************************************)
(* Sequences of length <= n over a set, and concatenation of pieces.       *)
(***************************************************************************)
SeqsUpTo(S, n) == UNION {[1..k -> S] : k \in 0..n}

RECURSIVE Flatten(_)
Flatten(ps) == IF ps = <<>> THEN <<>> ELSE Head(ps) \o Flatten(Tail(ps))

(***************************************************************************)
(* Arguments the caller passes.                                            *)
(***************************************************************************)
\* sat_id: missing, negative, zero, the ISS
SatIds == {None, Some(-1), Some(0), Some(25544)}
\* observer latitude and longitude, in degrees (0 is the equator / Greenwich)
Lats == {Some(0), Some(40)}
Lngs == {Some(0), Some(-74)}
\* the `seconds` argument of get_positions, around the limit
Seconds == {60, MaxSeconds, MaxSeconds + 1}

\* self.api_key, set once by __init__ (which rejects an empty key)
api_key == "KEY"

(***************************************************************************)
(* Response bodies of /tle.                                                *)
(***************************************************************************)
Pieces == {<<"1">>, <<" ">>, <<CR, LF>>, <<CR>>, <<LF>>}

\* raw TLE strings: every concatenation of at most MaxPieces pieces
RawTles == {Flatten(ps) : ps \in SeqsUpTo(Pieces, MaxPieces)}

SatInfo == [satid |-> 25544, satname |-> "SPACE STATION", transactionscount |-> 4]

EmptyDict == [k \in {} |-> None]

TleBodies ==
    {[info |-> SatInfo, tle |-> raw] : raw \in RawTles}
    \cup {[tle |-> raw] : raw \in RawTles}
    \cup {[info |-> SatInfo], EmptyDict}

TleResponses ==
    FailedResponses \cup {NotJsonResponse} \cup {OkResponse(d) : d \in TleBodies}

\* whether json() failing is a RequestException: only a non-JSON body asks
JsonFlavours(r) == IF r = NotJsonResponse THEN BOOLEAN ELSE {TRUE}

(***************************************************************************)
(* get_tle                                                                 *)
(***************************************************************************)
\* variant: a missing `tle` is read as an empty string (data.get("tle", ""))
get_tle_map_NoFieldCheck(data) ==
    IF "info" \notin DOMAIN data THEN Raise(KeyError("info"))
    ELSE Return(Some([satid        |-> data.info.satid,
                      satname      |-> data.info.satname,
                      transactions |-> data.info.transactionscount,
                      tle          |-> TleDict(TleLines(Get(data, "tle", <<>>)))]))

\* lines 47-60: the mapping of a parsed body, or the exception it raises
get_tle_map(data) ==
    IF "tle" \notin DOMAIN data
    THEN Raise(ValueError("Invalid response: 'tle' field missing from API response."))
    ELSE IF "info" \notin DOMAIN data THEN Raise(KeyError("info"))
    ELSE Return(Some([satid        |-> data.info.satid,
                      satname      |-> data.info.satname,
                      transactions |-> data.info.transactionscount,
                      tle          |-> TleDict(TleLines(data.tle))]))

\* lines 43-60: the try block, given the response to the GET
get_tle_try(r, jsonIsReqExc) ==
    LET err == TransportError(r, jsonIsReqExc)
    IN  IF err # None THEN Raise(err[1]) ELSE get_tle_map(r.json[1])

\* lines 62-67 (and 194-199): both except clauses log and re-raise
ExceptReraise(outcome) ==
    IF outcome.kind = "raise" /\ "RequestException" \in outcome.exc.mro
    THEN [result |-> outcome, printed |-> <<"HTTP Request failed">>]
    ELSE IF outcome.kind = "raise" /\ "ValueError" \in outcome.exc.mro
    THEN [result |-> outcome, printed |-> <<"Data error">>]
    ELSE [result |-> outcome, printed |-> <<>>]

\* lines 37-43: validation, URL, requests.get(url)
get_tle(sat_id) ==
    /\ pc \in {"idle", "done"}
    /\ op' = "get_tle"
    /\ args' = [sat_id |-> sat_id]
    /\ response' = None
    /\ printed' = <<>>
    /\ IF ~Truthy(sat_id)
       THEN /\ result' = Raise(ValueError("sat_id is required."))
            /\ sent' = <<>>
            /\ pc' = "done"
       ELSE /\ result' = NoResult
            /\ sent' = <<[path |-> "tle", params |-> <<sat_id[1]>>, key |-> api_key]>>
            /\ pc' = "await"

\* variant: a failed request is sent a second time before the call gives up
get_tle_response_Retry ==
    /\ pc = "await" /\ op = "get_tle"
    /\ \E r \in TleResponses : \E j \in JsonFlavours(r) :
         LET h == ExceptReraise(get_tle_try(r, j))
         IN  /\ response' = Some(r)
             /\ result' = h.result
             /\ printed' = h.printed
             /\ sent' = IF r \in FailedResponses THEN sent \o sent ELSE sent
    /\ pc' = "done"
    /\ UNCHANGED <<op, args>>

\* lines 43-67: the response arrives and the call completes
get_tle_response ==
    /\ pc = "await" /\ op = "get_tle"
    /\ \E r \in TleResponses : \E j \in JsonFlavours(r) :
         LET h == ExceptReraise(get_tle_try(r, j))
         IN  /\ response' = Some(r)
             /\ result' = h.result
             /\ printed' = h.printed
    /\ pc' = "done"
    /\ UNCHANGED <<op, args, sent>>

(***************************************************************************)
(* datetime: an aware datetime is its wall-clock reading (in seconds) and  *)
(* the UTC offset of its tzinfo.                                           *)
(***************************************************************************)
\* the system's local time zone: its UTC offset switches once (DST)
LocalZones ==
    {[switch |-> 1060, before |-> b, after |-> a] : b, a \in {0, 3600, 7200}}

UtcZone == [switch |-> 0, before |-> 0, after |-> 0]

\* the local zone's UTC offset at the instant t (epoch seconds)
UtcOffset(zone, t) == IF t < zone.switch THEN zone.before ELSE zone.after

\* datetime.fromtimestamp(ts, tz=timezone.utc)
fromtimestamp(ts) == [wall |-> ts, utcoffset |-> 0]

\* dt.astimezone(): the same instant on the local clock
astimezone(dt, zone) ==
    LET off == UtcOffset(zone, dt.wall - dt.utcoffset)
    IN  [wall |-> dt.wall - dt.utcoffset + off, utcoffset |-> off]

\* variant: the wall clocks subtracted as if both were naive
total_seconds_Naive(a, b) == a.wall - b.wall

\* int((a - b).total_seconds()) of two aware datetimes: the difference of the
\* wall clocks, corrected by the two UTC offsets
total_seconds(a, b) == (a.wall - b.wall) + (b.utcoffset - a.utcoffset)

\* the `if convert_to_local:` branch
Localize(dt, convert_to_local, zone) ==
    IF convert_to_local THEN astimezone(dt, zone) ELSE dt

(***************************************************************************)
(* Response bodies of /visualpasses and /radiopasses.                      *)
(***************************************************************************)
StartTimes == {1000, 1030}
EndTimes == {1090, 1000}

PassInfos ==
    {[satname |-> "SPACE STATION", category |-> "Amateur radio"],
     [satname |-> "SPACE STATION"],
     [category |-> "Amateur radio"],
     EmptyDict}

VisualPassItems ==
    {[startUTC |-> s, endUTC |-> e, duration |-> d, startAzCompass |-> "NW",
      endAzCompass |-> "SE", maxEl |-> 45, mag |-> -2]
        : s \in StartTimes, e \in EndTimes, d \in {60, 90}}

RadioPassItems ==
    {[startUTC |-> s, maxUTC |-> 1045, endUTC |-> e, startAzCompass |-> "NW",
      endAzCompass |-> "SE", maxEl |-> 45]
        : s \in StartTimes, e \in EndTimes}
    \cup
    {[startUTC |-> s, maxUTC |-> 1045, endUTC |-> e, startAzCompass |-> "NW",
      endAzCompass |-> "SE", maxEl |-> 45, duration |-> 77]
        : s \in StartTimes, e \in EndTimes}

\* bodies with and without `info`, with and without `passes`
PassBodies(Items) ==
    LET lists == SeqsUpTo(Items, MaxItems)
    IN  {[info |-> i, passes |-> ps] : i \in PassInfos, ps \in lists}
        \cup {[passes |-> ps] : ps \in lists}
        \cup {[info |-> i] : i \in PassInfos}
        \cup {EmptyDict}

PassResponses(Items) ==
    FailedResponses \cup {NotJsonResponse} \cup {OkResponse(d) : d \in PassBodies(Items)}

\* variant: the except clause logs and re-raises, as in get_tle
ExceptReturnNone_Reraise(outcome) ==
    IF outcome.kind = "raise" /\ "RequestException" \in outcome.exc.mro
    THEN [result |-> outcome, printed |-> <<"API request failed">>]
    ELSE [result |-> outcome, printed |-> <<>>]

\* lines 130-132 (265-267, 330-332): a RequestException is logged and the
\* call returns None; anything else propagates
ExceptReturnNone(outcome) ==
    IF outcome.kind = "raise" /\ "RequestException" \in outcome.exc.mro
    THEN [result |-> Return(None), printed |-> <<"API request failed">>]
    ELSE [result |-> outcome, printed |-> <<>>]

\* variant: a body with no passes gives None, like a failed request
NoPasses_None(data) == Return(None)

\* lines 105, 237: the result for a body with no passes
NoPasses(data) ==
    Return(Some([satellite |-> Get(Get(data, "info", EmptyDict), "satname", "Unknown"),
                 passes    |-> <<>>]))

(***************************************************************************)
(* get_visual_passes                                                       *)
(***************************************************************************)
\* lines 109-123: one pass of the payload to one pass of the result
visual_pass(p, convert_to_local, zone) ==
    [start_time        |-> Localize(fromtimestamp(p.startUTC), convert_to_local, zone),
     end_time          |-> Localize(fromtimestamp(p.endUTC), convert_to_local, zone),
     duration_sec      |-> p.duration,
     start_direction   |-> p.startAzCompass,
     end_direction     |-> p.endAzCompass,
     max_elevation_deg |-> p.maxEl,
     brightness_mag    |-> p.mag]

\* lines 107-123: passes = []; for p in data["passes"]: passes.append(...)
RECURSIVE visual_loop(_, _, _, _)
visual_loop(todo, passes, convert_to_local, zone) ==
    IF todo = <<>> THEN passes
    ELSE visual_loop(Tail(todo),
                     Append(passes, visual_pass(Head(todo), convert_to_local, zone)),
                     convert_to_local, zone)

\* lines 104-128
get_visual_passes_map(data, convert_to_local, zone) ==
    IF "passes" \notin DOMAIN data \/ data.passes = <<>> THEN NoPasses(data)
    ELSE LET passes == visual_loop(data.passes, <<>>, convert_to_local, zone)
         IN  IF "info" \notin DOMAIN data THEN Raise(KeyError("info"))
             ELSE IF "satname" \notin DOMAIN data.info THEN Raise(KeyError("satname"))
             ELSE Return(Some([satellite |-> data.info.satname, passes |-> passes]))

\* lines 100-128
get_visual_passes_try(r, jsonIsReqExc, convert_to_local, zone) ==
    LET err == TransportError(r, jsonIsReqExc)
    IN  IF err # None THEN Raise(err[1])
        ELSE get_visual_passes_map(r.json[1], convert_to_local, zone)

\* the seven arguments: only the URL and convert_to_local depend on them
PassArgs ==
    [sat_id : {Some(0), Some(25544)}, lat : {Some(40)}, lng : {Some(-74)},
     alt : {10}, days : {2}, min : {60}, convert_to_local : BOOLEAN]

PassUrl(path, a) ==
    [path |-> path,
     params |-> <<a.sat_id[1], a.lat[1], a.lng[1], a.alt, a.days, a.min>>,
     key |-> api_key]

\* lines 94-100: no validation; URL, requests.get(url, timeout=10)
get_visual_passes(a) ==
    /\ pc \in {"idle", "done"}
    /\ op' = "get_visual_passes"
    /\ args' = a
    /\ response' = None
    /\ printed' = <<>>
    /\ result' = NoResult
    /\ sent' = <<PassUrl("visualpasses", a)>>
    /\ pc' = "await"

\* the zones astimezone() can see: only a converting call looks at the zone
Zones(convert_to_local) == IF convert_to_local THEN LocalZones ELSE {UtcZone}

\* lines 100-132
get_visual_passes_response ==
    /\ pc = "await" /\ op = "get_visual_passes"
    /\ \E r \in PassResponses(VisualPassItems) : \E j \in JsonFlavours(r) :
       \E zone \in Zones(args.convert_to_local) :
         LET h == ExceptReturnNone(
                     get_visual_passes_try(r, j, args.convert_to_local, zone))
         IN  /\ response' = Some(r)
             /\ result' = h.result
             /\ printed' = h.printed
    /\ pc' = "done"
    /\ UNCHANGED <<op, args, sent>>

(***************************************************************************)
(* get_radio_passes                                                        *)
(***************************************************************************)
\* lines 241-258
radio_pass(p, convert_to_local, zone) ==
    LET start_time == Localize(fromtimestamp(p.startUTC), convert_to_local, zone)
        max_time   == Localize(fromtimestamp(p.maxUTC), convert_to_local, zone)
        end_time   == Localize(fromtimestamp(p.endUTC), convert_to_local, zone)
    IN  [start_time        |-> start_time,
         max_time          |-> max_time,
         end_time          |-> end_time,
         duration_sec      |-> total_seconds(end_time, start_time),
         start_direction   |-> p.startAzCompass,
         end_direction     |-> p.endAzCompass,
         max_elevation_deg |-> p.maxEl]

\* lines 239-258
RECURSIVE radio_loop(_, _, _, _)
radio_loop(todo, passes, convert_to_local, zone) ==
    IF todo = <<>> THEN passes
    ELSE radio_loop(Tail(todo),
                    Append(passes, radio_pass(Head(todo), convert_to_local, zone)),
                    convert_to_local, zone)

\* lines 236-263
get_radio_passes_map(data, convert_to_local, zone) ==
    IF "passes" \notin DOMAIN data \/ data.passes = <<>> THEN NoPasses(data)
    ELSE LET passes == radio_loop(data.passes, <<>>, convert_to_local, zone)
         IN  IF "info" \notin DOMAIN data THEN Raise(KeyError("info"))
             ELSE IF "satname" \notin DOMAIN data.info THEN Raise(KeyError("satname"))
             ELSE Return(Some([satellite |-> data.info.satname, passes |-> passes]))

\* lines 232-263
get_radio_passes_try(r, jsonIsReqExc, convert_to_local, zone) ==
    LET err == TransportError(r, jsonIsReqExc)
    IN  IF err # None THEN Raise(err[1])
        ELSE get_radio_passes_map(r.json[1], convert_to_local, zone)

\* lines 226-232
get_radio_passes(a) ==
    /\ pc \in {"idle", "done"}
    /\ op' = "get_radio_passes"
    /\ args' = a
    /\ response' = None
    /\ printed' = <<>>
    /\ result' = NoResult
    /\ sent' = <<PassUrl("radiopasses", a)>>
    /\ pc' = "await"

\* lines 232-267
get_radio_passes_response ==
    /\ pc = "await" /\ op = "get_radio_passes"
    /\ \E r \in PassResponses(RadioPassItems) : \E j \in JsonFlavours(r) :
       \E zone \in Zones(args.convert_to_local) :
         LET h == ExceptReturnNone(
                     get_radio_passes_try(r, j, args.convert_to_local, zone))
         IN  /\ response' = Some(r)
             /\ result' = h.result
             /\ printed' = h.printed
    /\ pc' = "done"
    /\ UNCHANGED <<op, args, sent>>

(***************************************************************************)
(* get_positions                                                           *)
(***************************************************************************)
PositionItems ==
    {[satlatitude |-> la, satlongitude |-> 12, azimuth |-> 200, elevation |-> 30,
      ra |-> 100, dec |-> -20, timestamp |-> t]
        : la \in {-5, 51}, t \in {1000, 1001}}
    \cup
    {[satlatitude |-> la, satlongitude |-> 12, sataltitude |-> 420, azimuth |-> 200,
      elevation |-> 30, ra |-> 100, dec |-> -20, timestamp |-> t]
        : la \in {-5, 51}, t \in {1000, 1001}}

PositionBodies ==
    LET lists == SeqsUpTo(PositionItems, MaxItems)
    IN  {[info |-> SatInfo, positions |-> ps] : ps \in lists}
        \cup {[positions |-> ps] : ps \in lists}
        \cup {[info |-> SatInfo], EmptyDict}

PositionResponses ==
    FailedResponses \cup {NotJsonResponse} \cup {OkResponse(d) : d \in PositionBodies}

\* lines 176-185: p.get("sataltitude") is None when the key is missing
position(p) ==
    [latitude  |-> p.satlatitude,
     longitude |-> p.satlongitude,
     altitude  |-> IF "sataltitude" \in DOMAIN p THEN Some(p.sataltitude) ELSE None,
     azimuth   |-> p.azimuth,
     elevation |-> p.elevation,
     ra        |-> p.ra,
     dec       |-> p.dec,
     timestamp |-> p.timestamp]

\* variant: positions.insert(0, ...) instead of append
RECURSIVE positions_loop_Prepend(_, _)
positions_loop_Prepend(todo, positions) ==
    IF todo = <<>> THEN positions
    ELSE positions_loop_Prepend(Tail(todo), <<position(Head(todo))>> \o positions)

\* lines 174-185
RECURSIVE positions_loop(_, _)
positions_loop(todo, positions) ==
    IF todo = <<>> THEN positions
    ELSE positions_loop(Tail(todo), Append(positions, position(Head(todo))))

\* lines 171-192
get_positions_map(data) ==
    IF "positions" \notin DOMAIN data
    THEN Raise(ValueError("Invalid response: 'positions' field missing from API response."))
    ELSE LET positions == positions_loop(data.positions, <<>>)
         IN  IF "info" \notin DOMAIN data THEN Raise(KeyError("info"))
             ELSE Return(Some([satid        |-> data.info.satid,
                               satname      |-> data.info.satname,
                               transactions |-> data.info.transactionscount,
                               positions    |-> positions]))

\* lines 167-192
get_positions_try(r, jsonIsReqExc) ==
    LET err == TransportError(r, jsonIsReqExc)
    IN  IF err # None THEN Raise(err[1]) ELSE get_positions_map(r.json[1])

PositionArgs ==
    [sat_id : SatIds, observer_lat : Lats, observer_lng : Lngs,
     observer_alt : {10}, seconds : Seconds]

\* variant: observer_lng left out of the all([...]) check
get_positions_check_NoLng(a) ==
    IF ~(Truthy(a.sat_id) /\ Truthy(a.observer_lat))
    THEN Some(ValueError("Missing required parameters (sat_id, lat, lng)."))
    ELSE IF a.seconds > MaxSeconds
    THEN Some(ValueError("Seconds parameter cannot exceed 300 (per API limit)."))
    ELSE None

\* lines 155-159: the two checks made before the request; None when both pass
get_positions_check(a) ==
    IF ~(Truthy(a.sat_id) /\ Truthy(a.observer_lat) /\ Truthy(a.observer_lng))
    THEN Some(ValueError("Missing required parameters (sat_id, lat, lng)."))
    ELSE IF a.seconds > MaxSeconds
    THEN Some(ValueError("Seconds parameter cannot exceed 300 (per API limit)."))
    ELSE None

\* lines 155-167
get_positions(a) ==
    /\ pc \in {"idle", "done"}
    /\ op' = "get_positions"
    /\ args' = a
    /\ response' = None
    /\ printed' = <<>>
    /\ LET bad == get_positions_check(a)
       IN  IF bad # None
           THEN /\ result' = Raise(bad[1])
                /\ sent' = <<>>
                /\ pc' = "done"
           ELSE /\ result' = NoResult
                /\ sent' = <<[path |-> "positions",
                              params |-> <<a.sat_id[1], a.observer_lat[1],
                                           a.observer_lng[1], a.observer_alt, a.seconds>>,
                              key |-> api_key]>>
                /\ pc' = "await"

\* lines 167-199
get_positions_response ==
    /\ pc = "await" /\ op = "get_positions"
    /\ \E r \in PositionResponses : \E j \in JsonFlavours(r) :
         LET h == ExceptReraise(get_positions_try(r, j))
         IN  /\ response' = Some(r)
             /\ result' = h.result
             /\ printed' = h.printed
    /\ pc' = "done"
    /\ UNCHANGED <<op, args, sent>>

(***************************************************************************)
(* get_objects_above                                                       *)
(***************************************************************************)
\* launchDate texts "YYYY-MM-DD" as <<year, month, day>>; <<>> is the text ""
DateTexts ==
    {<<2021, 13, 40>>, <<2021, 2, 29>>, <<2020, 2, 29>>, <<2021, 12, 31>>,
     <<2021, 4, 31>>, <<2021, 0, 10>>, <<>>}

IsLeap(y) == (y % 4 = 0 /\ y % 100 # 0) \/ y % 400 = 0

DaysInMonth(y, m) ==
    IF m = 2 THEN (IF IsLeap(y) THEN 29 ELSE 28)
    ELSE IF m \in {4, 6, 9, 11} THEN 30 ELSE 31

\* variant: the day is checked against 1..31 only, not against the month
strptime_NoDayCheck(text) ==
    IF Len(text) # 3 THEN Raise(ValueError("does not match format '%Y-%m-%d'"))
    ELSE IF text[2] \notin 1..12 \/ text[3] \notin 1..31
    THEN Raise(ValueError("does not match format '%Y-%m-%d'"))
    ELSE Return([year |-> text[1], month |-> text[2], day |-> text[3],
                 hour |-> 0, minute |-> 0, second |-> 0])

\* datetime.strptime(text, "%Y-%m-%d"): a datetime at midnight, or ValueError
strptime(text) ==
    IF Len(text) # 3 THEN Raise(ValueError("does not match format '%Y-%m-%d'"))
    ELSE IF text[2] \notin 1..12 \/ text[3] \notin 1..31
    THEN Raise(ValueError("does not match format '%Y-%m-%d'"))
    ELSE IF text[3] > DaysInMonth(text[1], text[2])
    THEN Raise(ValueError("day is out of range for month"))
    ELSE Return([year |-> text[1], month |-> text[2], day |-> text[3],
                 hour |-> 0, minute |-> 0, second |-> 0])

\* lines 309-312: any exception of the lookup or the parse gives None
launch_date(sat) ==
    LET parsed == IF "launchDate" \notin DOMAIN sat THEN Raise(KeyError("launchDate"))
                  ELSE strptime(sat.launchDate)
    IN  IF parsed.kind = "raise" THEN None ELSE Some(parsed.value)

\* lines 314-322
satellite(sat) ==
    [id              |-> sat.satid,
     name            |-> sat.satname,
     intl_designator |-> sat.intDesignator,
     launch_date     |-> launch_date(sat),
     latitude        |-> sat.satlat,
     longitude       |-> sat.satlng,
     altitude_km     |-> sat.satalt]

\* lines 307-322
RECURSIVE above_loop(_, _)
above_loop(todo, satellites) ==
    IF todo = <<>> THEN satellites
    ELSE above_loop(Tail(todo), Append(satellites, satellite(Head(todo))))

AboveSats ==
    {<<25544, "SPACE STATION", "1998-067A">>, <<20580, "HST", "1990-037B">>}

AboveItems ==
    {[satid |-> s[1], satname |-> s[2], intDesignator |-> s[3], launchDate |-> d,
      satlat |-> 41, satlng |-> -73, satalt |-> 420] : s \in AboveSats, d \in DateTexts}
    \cup
    {[satid |-> s[1], satname |-> s[2], intDesignator |-> s[3],
      satlat |-> 41, satlng |-> -73, satalt |-> 420] : s \in AboveSats}

AboveInfos == {[category |-> "ANY", satcount |-> 7], [category |-> "ANY"], EmptyDict}

AboveBodies ==
    LET lists == SeqsUpTo(AboveItems, MaxItems)
    IN  {[info |-> i, above |-> xs] : i \in AboveInfos, xs \in lists}
        \cup {[above |-> xs] : xs \in lists}
        \cup {[info |-> i] : i \in AboveInfos}
        \cup {EmptyDict}

AboveResponses ==
    FailedResponses \cup {NotJsonResponse} \cup {OkResponse(d) : d \in AboveBodies}

\* lines 300-328
get_objects_above_map(data) ==
    IF "above" \notin DOMAIN data \/ data.above = <<>>
    THEN Return(Some([category   |-> Get(Get(data, "info", EmptyDict), "category", "Unknown"),
                      count      |-> 0,
                      satellites |-> <<>>]))
    ELSE LET satellites == above_loop(data.above, <<>>)
         IN  IF "info" \notin DOMAIN data THEN Raise(KeyError("info"))
             ELSE IF "category" \notin DOMAIN data.info THEN Raise(KeyError("category"))
             ELSE IF "satcount" \notin DOMAIN data.info THEN Raise(KeyError("satcount"))
             ELSE Return(Some([category   |-> data.info.category,
                               count      |-> data.info.satcount,
                               satellites |-> satellites]))

\* lines 296-328
get_objects_above_try(r, jsonIsReqExc) ==
    LET err == TransportError(r, jsonIsReqExc)
    IN  IF err # None THEN Raise(err[1]) ELSE get_objects_above_map(r.json[1])

AboveArgs ==
    [lat : Lats, lng : {Some(-74)}, alt : {10}, search_radius : {90},
     category_id : {0}]

\* lines 290-296: no validation; URL, requests.get(url, timeout=15)
get_objects_above(a) ==
    /\ pc \in {"idle", "done"}
    /\ op' = "get_objects_above"
    /\ args' = a
    /\ response' = None
    /\ printed' = <<>>
    /\ result' = NoResult
    /\ sent' = <<[path |-> "above",
                  params |-> <<a.lat[1], a.lng[1], a.alt, a.search_radius, a.category_id>>,
                  key |-> api_key]>>
    /\ pc' = "await"

\* lines 296-332
get_objects_above_response ==
    /\ pc = "await" /\ op = "get_objects_above"
    /\ \E r \in AboveResponses : \E j \in JsonFlavours(r) :
         LET h == ExceptReturnNone(get_objects_above_try(r, j))
         IN  /\ response' = Some(r)
             /\ result' = h.result
             /\ printed' = h.printed
    /\ pc' = "done"
    /\ UNCHANGED <<op, args, sent>>

(***************************************************************************)
(* The client after construction: no call made yet.                        *)
(***************************************************************************)
Init ==
    /\ pc = "idle"
    /\ op = "none"
    /\ args = EmptyDict
    /\ sent = <<>>
    /\ response = None
    /\ result = NoResult
    /\ printed = <<>>

Next ==
    \/ \E sat_id \in SatIds : get_tle(sat_id)
    \/ get_tle_response
    \/ \E a \in PassArgs : get_visual_passes(a)
    \/ get_visual_passes_response
    \/ \E a \in PassArgs : get_radio_passes(a)
    \/ get_radio_passes_response
    \/ \E a \in PositionArgs : get_positions(a)
    \/ get_positions_response
    \/ \E a \in AboveArgs : get_objects_above(a)
    \/ get_objects_above_response

Spec == Init /\ [][Next]_vars

(***************************************************************************)
(* Vocabulary of the properties.                                           *)
(***************************************************************************)
\* a call has been made and has ended (returned or raised)
Done(name) == pc = "done" /\ op = name

\* the GET of the current call failed in transport: no response, or not 2xx
TransportFailed ==
    /\ response # None
    /\ (response[1].net # "ok" \/ response[1].code \notin 200..299)

\* the GET of the current call succeeded and its body parsed as JSON
GotJson ==
    /\ response # None
    /\ response[1].net = "ok"
    /\ response[1].code \in 200..299
    /\ response[1].json # None

Data == response[1].json[1]

\* the call raised the ValueError of an argument check
InvalidArgument ==
    /\ result.kind = "raise"
    /\ result.exc.type = "ValueError"
    /\ result.exc.msg \in {"sat_id is required.",
                           "Missing required parameters (sat_id, lat, lng).",
                           "Seconds parameter cannot exceed 300 (per API limit)."}
    /\ response = None

Returned == result.kind = "return" /\ result.value # None
Value == result.value[1]

Min(S) == CHOOSE x \in S : \A y \in S : x <= y

(***************************************************************************)
(* C1                                                                      *)
(***************************************************************************)
\* C1 as stated: a sat_id that is None or <= 0 makes get_tle and get_positions
\* fail with ValueError, no request having been issued.
C1_NonPositiveSatIdRejected ==
    (op \in {"get_tle", "get_positions"}
       /\ (args.sat_id = None \/ args.sat_id[1] <= 0))
    => (InvalidArgument /\ sent = <<>>)

\* C1 amended: a falsy sat_id (None or 0) makes get_tle and get_positions fail
\* with ValueError, no request having been issued.
C1_FalsySatIdRejected ==
    (op \in {"get_tle", "get_positions"}
       /\ (args.sat_id = None \/ args.sat_id[1] = 0))
    => (pc = "done" /\ InvalidArgument /\ sent = <<>>)

C1_Witness ==
    /\ Done("get_tle") /\ args.sat_id = Some(0)
    /\ InvalidArgument /\ sent = <<>>

C3_PositionsPreconditions ==
    (op = "get_positions")
    => LET ok == /\ args.sat_id # None /\ args.sat_id[1] # 0
                 /\ args.observer_lat[1] # 0
                 /\ args.observer_lng[1] # 0
                 /\ args.seconds <= 300
       IN  /\ (sent # <<>>) <=> ok
           /\ ~ok => (pc = "done" /\ InvalidArgument /\ sent = <<>>)

C3_Witness ==
    /\ Done("get_positions")
    /\ args.sat_id = Some(25544) /\ args.observer_lat = Some(40)
    /\ args.observer_lng = Some(-74) /\ args.seconds = 301
    /\ InvalidArgument /\ sent = <<>>

(***************************************************************************)
(* C4                                                                      *)
(***************************************************************************)
\* C4 as stated: every call of the five operations has performed exactly one
\* GET when it ends.
C4_EveryCallOneGet == (pc = "done") => Len(sent) = 1

\* C4 amended: a call rejected by an argument check performs no GET; every
\* other call performs exactly one GET whatever its outcome; no call performs
\* a second one.
C4_OneGetUnlessRejected ==
    /\ Len(sent) <= 1
    /\ (pc = "await") => Len(sent) = 1
    /\ (pc = "done") => IF InvalidArgument THEN Len(sent) = 0
                        ELSE Len(sent) = 1 /\ response # None

C4_Witness ==
    /\ Done("get_tle") /\ GotJson /\ "tle" \notin DOMAIN Data
    /\ result.kind = "raise" /\ Len(sent) = 1

(***************************************************************************)
(* C5                                                                      *)
(***************************************************************************)
\* C5: a parsed body without `tle` (get_tle) or `positions` (get_positions)
\* makes the call raise a ValueError that is no transport error.
C5_MissingFieldIsDataError ==
    /\ (Done("get_tle") /\ GotJson /\ "tle" \notin DOMAIN Data)
       => /\ result.kind = "raise"
          /\ result.exc.type = "ValueError"
          /\ "RequestException" \notin result.exc.mro
          /\ result.exc.msg = "Invalid response: 'tle' field missing from API response."
    /\ (Done("get_positions") /\ GotJson /\ "positions" \notin DOMAIN Data)
       => /\ result.kind = "raise"
          /\ result.exc.type = "ValueError"
          /\ "RequestException" \notin result.exc.mro
          /\ result.exc.msg
               = "Invalid response: 'positions' field missing from API response."

C5_Witness ==
    /\ Done("get_positions") /\ GotJson /\ Data = [info |-> SatInfo]
    /\ result.kind = "raise" /\ result.exc.type = "ValueError"

(***************************************************************************)
(* C6                                                                      *)
(***************************************************************************)
\* position i of raw opens a CR LF pair
IsSeparatorAt(raw, i) ==
    i >= 1 /\ i + 1 <= Len(raw) /\ raw[i] = "\r" /\ raw[i + 1] = "\n"

\* position i of raw lies in a CR LF pair
InSeparator(raw, i) == IsSeparatorAt(raw, i) \/ IsSeparatorAt(raw, i - 1)

\* the CRLF-delimited segment of raw that holds position i
SegmentFirst(raw, i) == Min({l \in 1..i : \A k \in l..i : ~InSeparator(raw, k)})
SegmentLast(raw, i) ==
    CHOOSE h \in i..Len(raw) :
        /\ \A k \in i..h : ~InSeparator(raw, k)
        /\ (h = Len(raw) \/ InSeparator(raw, h + 1))
SegmentAt(raw, i) == SubSeq(raw, SegmentFirst(raw, i), SegmentLast(raw, i))

\* the positions of raw that hold a non-whitespace character
Visible(raw) == {i \in 1..Len(raw) : raw[i] \notin {" ", "\t", "\r", "\n"}}

\* C6: line1 is the first and line2 the second CRLF-delimited segment of the raw
\* TLE that is not blank, in payload order; a line the payload has no segment
\* for is None; later segments are ignored.
C6_TleLinesAreFirstTwoNonBlankSegments ==
    (Done("get_tle") /\ Returned)
    => LET raw   == Data.tle
           lines == Value.tle
           v1    == Visible(raw)
       IN  IF v1 = {} THEN lines.line1 = None /\ lines.line2 = None
           ELSE LET i1 == Min(v1)
                    v2 == {i \in v1 : i > SegmentLast(raw, i1)}
                IN  /\ lines.line1 = Some(SegmentAt(raw, i1))
                    /\ IF v2 = {} THEN lines.line2 = None
                       ELSE lines.line2 = Some(SegmentAt(raw, Min(v2)))

\* a whitespace-only segment (a lone LF) between the two lines
C6_Witness ==
    /\ Done("get_tle") /\ Returned
    /\ Data.tle = <<"1", "\r", "\n", "\n", "\r", "\n", "1">>
    /\ Value.tle = [line1 |-> Some(<<"1">>), line2 |-> Some(<<"1">>)]

(***************************************************************************)
(* C7                                                                      *)
(***************************************************************************)
\* the parsed body has no passes: the key is missing or the list is empty
NoPassesInBody == "passes" \notin DOMAIN Data \/ Data.passes = <<>>

\* C7 as stated: with no passes in the body get_visual_passes returns empty
\* passes labelled with the info category name, "Unknown" when there is none.
C7_EmptyPassesLabelledByCategory ==
    (Done("get_visual_passes") /\ GotJson /\ NoPassesInBody)
    => /\ Returned
       /\ Value.passes = <<>>
       /\ Value.satellite =
            (IF "info" \in DOMAIN Data /\ "category" \in DOMAIN Data.info
             THEN Data.info.category ELSE "Unknown")

\* C7 amended: with no passes in the body get_visual_passes returns (never
\* None, never an error) empty passes labelled with the info satellite name
\* (satname), "Unknown" when there is none.
C7_EmptyPassesLabelledBySatname ==
    (Done("get_visual_passes") /\ GotJson /\ NoPassesInBody)
    => /\ Returned
       /\ Value.passes = <<>>
       /\ Value.satellite =
            (IF "info" \in DOMAIN Data /\ "satname" \in DOMAIN Data.info
             THEN Data.info.satname ELSE "Unknown")

C7_Witness ==
    /\ Done("get_visual_passes") /\ GotJson
    /\ Data = [info |-> [category |-> "Amateur radio"], passes |-> <<>>]
    /\ Returned /\ Value = [satellite |-> "Unknown", passes |-> <<>>]

(***************************************************************************)
(* C8                                                                      *)
(***************************************************************************)
\* C8: every pass of a get_radio_passes result has duration_sec = endUTC -
\* startUTC of the payload's pass, with or without a `duration` field and
\* with convert_to_local set or not.
C8_RadioDurationIsEndMinusStart ==
    (Done("get_radio_passes") /\ Returned /\ GotJson /\ ~NoPassesInBody)
    => /\ Len(Value.passes) = Len(Data.passes)
       /\ \A i \in 1..Len(Data.passes) :
            Value.passes[i].duration_sec
              = Data.passes[i].endUTC - Data.passes[i].startUTC

\* converted to a local zone whose offset changes between start and end, the
\* payload carrying another duration
C8_Witness ==
    /\ Done("get_radio_passes") /\ Returned /\ GotJson /\ ~NoPassesInBody
    /\ args.convert_to_local
    /\ Data.passes[1].startUTC = 1000 /\ Data.passes[1].endUTC = 1090
    /\ "duration" \in DOMAIN Data.passes[1] /\ Data.passes[1].duration = 77
    /\ Value.passes[1].start_time.utcoffset # Value.passes[1].end_time.utcoffset
    /\ Value.passes[1].duration_sec = 90

(***************************************************************************)
(* C9                                                                      *)
(***************************************************************************)
MonthLengths == <<31, 28, 31, 30, 31, 30, 31, 31, 30, 31, 30, 31>>

\* the text is a date of the calendar, written YYYY-MM-DD
IsCalendarDate(text) ==
    /\ Len(text) = 3
    /\ text[2] \in 1..12
    /\ text[3] >= 1
    /\ text[3] <= MonthLengths[text[2]]
                    + (IF text[2] = 2 /\ text[1] % 4 = 0
                          /\ (text[1] % 100 # 0 \/ text[1] % 400 = 0)
                       THEN 1 ELSE 0)

\* the parsed body is a populated objects-above payload with its info
AboveBodyPopulated ==
    /\ GotJson
    /\ "above" \in DOMAIN Data /\ Data.above # <<>>
    /\ "info" \in DOMAIN Data /\ {"category", "satcount"} \subseteq DOMAIN Data.info

\* C9: a satellite whose launchDate is missing or no calendar date gets
\* launch_date None and its other fields from the payload; the call returns,
\* and a satellite with a valid date keeps that date.
C9_BadLaunchDateIsNone ==
    (Done("get_objects_above") /\ AboveBodyPopulated)
    => /\ Returned
       /\ Len(Value.satellites) = Len(Data.above)
       /\ \A i \in 1..Len(Data.above) :
            LET sat == Data.above[i]
                out == Value.satellites[i]
            IN  /\ out.id = sat.satid /\ out.name = sat.satname
                /\ out.intl_designator = sat.intDesignator
                /\ out.latitude = sat.satlat /\ out.longitude = sat.satlng
                /\ out.altitude_km = sat.satalt
                /\ IF "launchDate" \in DOMAIN sat /\ IsCalendarDate(sat.launchDate)
                   THEN /\ out.launch_date # None
                        /\ out.launch_date[1].year = sat.launchDate[1]
                        /\ out.launch_date[1].month = sat.launchDate[2]
                        /\ out.launch_date[1].day = sat.launchDate[3]
                   ELSE out.launch_date = None

\* "2021-13-40" beside a satellite with a valid date
C9_Witness ==
    /\ Done("get_objects_above") /\ AboveBodyPopulated /\ Returned
    /\ Len(Data.above) = 2
    /\ Data.above[1].satid = 25544
    /\ "launchDate" \in DOMAIN Data.above[1]
    /\ Data.above[1].launchDate = <<2021, 13, 40>>
    /\ "launchDate" \in DOMAIN Data.above[2]
    /\ Data.above[2].launchDate = <<2020, 2, 29>>
    /\ Value.satellites[1].launch_date = None
    /\ Value.satellites[1].id = 25544
    /\ Value.satellites[2].launch_date # None

(***************************************************************************)
(* C10                                                                     *)
(***************************************************************************)
\* the instant (epoch seconds) an aware datetime denotes
Instant(dt) == dt.wall - dt.utcoffset

\* C10: the list of every successful result of the four list operations has
\* the length of the payload's list and its i-th element comes from the
\* payload's i-th element.
C10_ListsKeepPayloadOrder ==
    /\ (Done("get_visual_passes") /\ Returned /\ GotJson /\ ~NoPassesInBody)
       => /\ Len(Value.passes) = Len(Data.passes)
          /\ \A i \in 1..Len(Data.passes) :
               /\ Instant(Value.passes[i].start_time) = Data.passes[i].startUTC
               /\ Instant(Value.passes[i].end_time) = Data.passes[i].endUTC
               /\ Value.passes[i].duration_sec = Data.passes[i].duration
    /\ (Done("get_radio_passes") /\ Returned /\ GotJson /\ ~NoPassesInBody)
       => /\ Len(Value.passes) = Len(Data.passes)
          /\ \A i \in 1..Len(Data.passes) :
               /\ Instant(Value.passes[i].start_time) = Data.passes[i].startUTC
               /\ Instant(Value.passes[i].max_time) = Data.passes[i].maxUTC
               /\ Instant(Value.passes[i].end_time) = Data.passes[i].endUTC
    /\ (Done("get_positions") /\ Returned)
       => /\ Len(Value.positions) = Len(Data.positions)
          /\ \A i \in 1..Len(Data.positions) :
               /\ Value.positions[i].timestamp = Data.positions[i].timestamp
               /\ Value.positions[i].latitude = Data.positions[i].satlatitude
               /\ Value.positions[i].altitude =
                    (IF "sataltitude" \in DOMAIN Data.positions[i]
                     THEN Some(Data.positions[i].sataltitude) ELSE None)
    /\ (Done("get_objects_above") /\ Returned /\ GotJson
          /\ "above" \in DOMAIN Data /\ Data.above # <<>>)
       => /\ Len(Value.satellites) = Len(Data.above)
          /\ \A i \in 1..Len(Data.above) :
               /\ Value.satellites[i].id = Data.above[i].satid
               /\ Value.satellites[i].name = Data.above[i].satname
               /\ (Value.satellites[i].launch_date # None)
                    => /\ "launchDate" \in DOMAIN Data.above[i]
                       /\ Value.satellites[i].launch_date[1].year
                            = Data.above[i].launchDate[1]

    /\ (op \in {"get_visual_passes", "get_radio_passes"} /\ pc = "done"
          /\ Returned /\ GotJson /\ NoPassesInBody)
       => Value.passes = <<>>
    /\ (Done("get_objects_above") /\ Returned /\ GotJson
          /\ ("above" \notin DOMAIN Data \/ Data.above = <<>>))
       => Value.satellites = <<>>

\* two different positions, returned in the payload's order
C10_Witness ==
    /\ Done("get_positions") /\ Returned
    /\ Len(Data.positions) = 2
    /\ Data.positions[1].timestamp = 1001 /\ Data.positions[2].timestamp = 1000
    /\ Value.positions[1].timestamp = 1001 /\ Value.positions[2].timestamp = 1000

====
